---------------------------- MODULE Spec2Model ----------------------------
(***************************************************************************)
(* Road-hazard-detection: the relay endpoint POST /api/analyze-image       *)
(* (src/app/api/analyze-image/route.ts) and the presentation client        *)
(* ImageAnalyzer (src/unnamed/part_000, the current page component).       *)
(*                                                                         *)
(* Texts are TLA+ strings, read character by character.  JavaScript values *)
(* are tagged records [t |-> tag, v |-> payload] so that values of         *)
(* different JavaScript types can be compared.                             *)
(***************************************************************************)
EXTENDS Integers, Sequences, FiniteSets, TLC

(***************************************************************************)
(* Bounds of the model.                                                    *)
(***************************************************************************)
\* Longest text, in characters, enumerated over Sigma for the model output.
MaxTextLen == 3
\* Most FileReader loads pending at once in the client.
MaxReaders == 2

VARIABLES
    request,      \* relay: the incoming request (multipart fields read by POST)
    apiKey,       \* relay: process.env.OPENAI_API_KEY
    pc,           \* relay: where the POST handler stands
    extCalls,     \* relay: the calls made to openai.chat.completions.create
    extResult,    \* relay: what the external call did: its content, or what it threw (history)
    response,     \* relay: the NextResponse returned, NoResponse before
    handlers,     \* relay: the POST handlers running at once, each with its local state
    uploadedImage,  \* client: useState<File | null>
    imagePreview,   \* client: useState<string | null>
    isAnalyzing,    \* client: useState(false)
    analysis,       \* client: useState<string | null>
    parsedAnalysis, \* client: useState<AnalysisResult | null>
    error,          \* client: useState<string | null>
    userDetails,    \* client: useState('')
    userContext,    \* client: useState<any>(null)
    readers,        \* client: the FileReader loads not yet completed
    inflight,       \* client: the fetches not yet settled, each with its form data
    settled,        \* client: the outcome of the fetch that settled last (history)
    event,          \* client: the handler that ran last, with what it was given (history)
    parserInput,    \* parser: the JSON text handed to the client's parser
    parserOutput    \* parser: what it made of it, with the fence put around the text

relayVars == <<request, apiKey, pc, extCalls, extResult, response, handlers>>
clientVars ==
    <<uploadedImage, imagePreview, isAnalyzing, analysis, parsedAnalysis, error,
      userDetails, userContext, readers, inflight, settled, event>>
parserVars == <<parserInput, parserOutput>>
vars == <<relayVars, clientVars, parserVars>>

(***************************************************************************)
(* JavaScript strings.                                                     *)
(***************************************************************************)
Char(s, i) == SubSeq(s, i, i)

\* The backtick, which a TLA+ string literal cannot hold, is written as a tilde.
Fence == "~~~"
FenceJson == "~~~json"

\* String.prototype.startsWith
StartsWith(s, p) == Len(s) >= Len(p) /\ SubSeq(s, 1, Len(p)) = p

EndsWith(s, p) == Len(s) >= Len(p) /\ SubSeq(s, Len(s) - Len(p) + 1, Len(s)) = p

\* String.prototype.includes
Includes(s, p) == \E i \in 1..(Len(s) - Len(p) + 1) : SubSeq(s, i, i + Len(p) - 1) = p

\* White space as String.prototype.trim sees it (the characters of the model's alphabet).
IsWhiteSpace(c) == c \in {" ", "\t", "\n", "\r"}

RECURSIVE TrimStart(_)
TrimStart(s) == IF s # "" /\ IsWhiteSpace(Head(s)) THEN TrimStart(Tail(s)) ELSE s

RECURSIVE TrimEnd(_)
TrimEnd(s) ==
    IF s # "" /\ IsWhiteSpace(Char(s, Len(s))) THEN TrimEnd(SubSeq(s, 1, Len(s) - 1)) ELSE s

\* String.prototype.trim
Trim(s) == TrimEnd(TrimStart(s))

\* s.replace(/^p/, ''): drops the prefix p when s starts with it.
ReplacePrefix(s, p) == IF StartsWith(s, p) THEN SubSeq(s, Len(p) + 1, Len(s)) ELSE s

\* s.replace(/p$/, ''): drops the suffix p when s ends with it ($ is the end of input).
ReplaceSuffix(s, p) == IF EndsWith(s, p) THEN SubSeq(s, 1, Len(s) - Len(p)) ELSE s

(***************************************************************************)
(* JavaScript values.                                                      *)
(***************************************************************************)
Null == [t |-> "null"]
Undefined == [t |-> "undefined"]
Bool(b) == [t |-> "boolean", v |-> b]
Num(n) == [t |-> "number", v |-> n]
Str(s) == [t |-> "string", v |-> s]
\* An array: the sequence of its elements.
Arr(es) == [t |-> "array", v |-> es]
\* An object: the sequence of its <<key, value>> members, in insertion order.
Obj(ms) == [t |-> "object", v |-> ms]

\* ToBoolean: !x is ~Truthy(x)
Truthy(x) ==
    CASE x.t = "null" -> FALSE
      [] x.t = "undefined" -> FALSE
      [] x.t = "boolean" -> x.v
      [] x.t = "number" -> x.v # 0
      [] x.t = "string" -> x.v # ""
      [] OTHER -> TRUE

\* typeof x
TypeOf(x) ==
    CASE x.t \in {"null", "array", "object"} -> "object"
      [] OTHER -> x.t

\* a || b
OrElse(a, b) == IF Truthy(a) THEN a ELSE b

HasKey(o, k) == \E i \in 1..Len(o.v) : o.v[i][1] = k

\* o.k for an object o: the member's value, undefined when there is none.
Get(o, k) ==
    IF o.t = "object" /\ HasKey(o, k)
    THEN LET i == CHOOSE j \in 1..Len(o.v) : o.v[j][1] = k IN o.v[i][2]
    ELSE Undefined

(***************************************************************************)
(* JSON.parse: a recursive-descent reader of RFC 8259 texts.  Numbers are  *)
(* integers (fractions and exponents use characters outside the model's    *)
(* alphabet), \u escapes are not read.                                     *)
(***************************************************************************)
IsJsonWs(c) == c \in {" ", "\t", "\n", "\r"}

RECURSIVE SkipWs(_)
SkipWs(s) == IF s # "" /\ IsJsonWs(Head(s)) THEN SkipWs(Tail(s)) ELSE s

Digits == {"0", "1", "2", "3", "4", "5", "6", "7", "8", "9"}

DigitVal(c) ==
    CASE c = "0" -> 0 [] c = "1" -> 1 [] c = "2" -> 2 [] c = "3" -> 3 [] c = "4" -> 4
      [] c = "5" -> 5 [] c = "6" -> 6 [] c = "7" -> 7 [] c = "8" -> 8 [] c = "9" -> 9

ParseFail == [ok |-> FALSE, val |-> Null, rest |-> ""]
ParseOk(v, r) == [ok |-> TRUE, val |-> v, rest |-> r]

\* The character an escape \c stands for, "" when \c is no simple escape.
Unescape(c) ==
    CASE c = "\"" -> "\"" [] c = "\\" -> "\\" [] c = "/" -> "/" [] c = "n" -> "\n"
      [] c = "t" -> "\t" [] c = "r" -> "\r" [] OTHER -> ""

\* The rest of a string literal, after its opening quote.
RECURSIVE ParseStringChars(_, _)
ParseStringChars(s, acc) ==
    IF s = "" THEN ParseFail
    ELSE CASE Head(s) = "\"" -> ParseOk(Str(acc), Tail(s))
           [] Head(s) = "\\" ->
                IF Len(s) >= 2 /\ Unescape(Char(s, 2)) # ""
                THEN ParseStringChars(SubSeq(s, 3, Len(s)), acc \o Unescape(Char(s, 2)))
                ELSE ParseFail
           [] Head(s) \in {"\n", "\t", "\r"} -> ParseFail
           [] OTHER -> ParseStringChars(Tail(s), acc \o Head(s))

RECURSIVE ParseDigits(_, _)
ParseDigits(s, n) ==
    IF s # "" /\ Head(s) \in Digits
    THEN ParseDigits(Tail(s), 10 * n + DigitVal(Head(s)))
    ELSE ParseOk(Num(n), s)

\* The digits of an integer: 0 | [1-9][0-9]*
ParseInt(u) ==
    IF u = "" \/ Head(u) \notin Digits THEN ParseFail
    ELSE IF Head(u) = "0" THEN ParseOk(Num(0), Tail(u))
    ELSE ParseDigits(u, 0)

Negated(r) == IF r.ok THEN ParseOk(Num(0 - r.val.v), r.rest) ELSE r

\* An integer: -? (0 | [1-9][0-9]*)
ParseNumber(s) == IF StartsWith(s, "-") THEN Negated(ParseInt(Tail(s))) ELSE ParseInt(s)

\* The members with k set to v: a repeated key keeps its place and takes the last value.
SetMember(ms, k, v) ==
    IF \E i \in 1..Len(ms) : ms[i][1] = k
    THEN [i \in 1..Len(ms) |-> IF ms[i][1] = k THEN <<k, v>> ELSE ms[i]]
    ELSE Append(ms, <<k, v>>)

RECURSIVE ParseValue(_)
RECURSIVE ParseElements(_, _)
RECURSIVE ParseMembers(_, _)

\* After an element of an array: a comma and the next element, or the closing bracket.
ElementsNext(t, acc) ==
    IF t = "" THEN ParseFail
    ELSE IF Head(t) = "," THEN ParseElements(Tail(t), acc)
    ELSE IF Head(t) = "]" THEN ParseOk(Arr(acc), Tail(t))
    ELSE ParseFail

ElementParsed(r, acc) ==
    IF r.ok THEN ElementsNext(SkipWs(r.rest), Append(acc, r.val)) ELSE ParseFail

\* The elements of an array from the start of an element on.
ParseElements(s, acc) == ElementParsed(ParseValue(s), acc)

\* After a member of an object: a comma and the next member, or the closing brace.
MembersNext(t, acc) ==
    IF t = "" THEN ParseFail
    ELSE IF Head(t) = "," THEN ParseMembers(Tail(t), acc)
    ELSE IF Head(t) = "}" THEN ParseOk(Obj(acc), Tail(t))
    ELSE ParseFail

MemberParsed(key, r, acc) ==
    IF r.ok THEN MembersNext(SkipWs(r.rest), SetMember(acc, key, r.val)) ELSE ParseFail

\* After a member's key: the colon and the member's value.
MemberColon(key, t, acc) ==
    IF StartsWith(t, ":") THEN MemberParsed(key, ParseValue(Tail(t)), acc) ELSE ParseFail

KeyParsed(k, acc) == IF k.ok THEN MemberColon(k.val.v, SkipWs(k.rest), acc) ELSE ParseFail

MemberAt(s, acc) ==
    IF StartsWith(s, "\"") THEN KeyParsed(ParseStringChars(Tail(s), ""), acc) ELSE ParseFail

\* The members of an object from the start of a member on.
ParseMembers(s, acc) == MemberAt(SkipWs(s), acc)

\* A value at the start of s, which starts with no white space.
ValueAt(s) ==
    IF s = "" THEN ParseFail
    ELSE CASE Head(s) = "{" ->
                IF StartsWith(SkipWs(Tail(s)), "}")
                THEN ParseOk(Obj(<<>>), Tail(SkipWs(Tail(s))))
                ELSE ParseMembers(Tail(s), <<>>)
           [] Head(s) = "[" ->
                IF StartsWith(SkipWs(Tail(s)), "]")
                THEN ParseOk(Arr(<<>>), Tail(SkipWs(Tail(s))))
                ELSE ParseElements(Tail(s), <<>>)
           [] Head(s) = "\"" -> ParseStringChars(Tail(s), "")
           [] Head(s) \in Digits \cup {"-"} -> ParseNumber(s)
           [] StartsWith(s, "true") -> ParseOk(Bool(TRUE), SubSeq(s, 5, Len(s)))
           [] StartsWith(s, "false") -> ParseOk(Bool(FALSE), SubSeq(s, 6, Len(s)))
           [] StartsWith(s, "null") -> ParseOk(Null, SubSeq(s, 5, Len(s)))
           [] OTHER -> ParseFail

ParseValue(s) == ValueAt(SkipWs(s))

\* The whole text must be one value, white space aside.
WholeText(r) ==
    IF r.ok /\ SkipWs(r.rest) = "" THEN [ok |-> TRUE, val |-> r.val]
    ELSE [ok |-> FALSE, val |-> Null]

\* JSON.parse(s): [ok |-> FALSE] stands for the SyntaxError it throws.
JSONParse(s) == WholeText(ParseValue(s))

(***************************************************************************)
(* JSON.stringify(value, null, gap): gap = "" is the compact form.         *)
(***************************************************************************)
\* A character as it stands inside a JSON string literal.
QuoteChar(c) ==
    CASE c = "\"" -> "\\\"" [] c = "\\" -> "\\\\" [] c = "\n" -> "\\n"
      [] c = "\t" -> "\\t" [] c = "\r" -> "\\r" [] OTHER -> c

RECURSIVE QuoteChars(_)
QuoteChars(s) ==
    IF s = "" THEN "" ELSE QuoteChar(Head(s)) \o QuoteChars(Tail(s))

Quote(s) == "\"" \o QuoteChars(s) \o "\""

RECURSIVE Join(_, _)
Join(parts, sep) ==
    IF parts = <<>> THEN ""
    ELSE IF Len(parts) = 1 THEN parts[1]
    ELSE parts[1] \o sep \o Join(Tail(parts), sep)

NatToString(n) == ToString(n)

RECURSIVE SelectMembers(_)
\* The members JSON.stringify writes: those whose value is not undefined.
SelectMembers(ms) ==
    IF ms = <<>> THEN <<>>
    ELSE IF ms[1][2].t = "undefined" THEN SelectMembers(Tail(ms))
    ELSE <<ms[1]>> \o SelectMembers(Tail(ms))

RECURSIVE StringifyAt(_, _, _)
StringifyAt(x, gap, indent) ==
    LET inner == indent \o gap
        open(b) == IF gap = "" THEN b ELSE b \o "\n" \o inner
        sep == IF gap = "" THEN "," ELSE ",\n" \o inner
        close(b) == IF gap = "" THEN b ELSE "\n" \o indent \o b
        colon == IF gap = "" THEN ":" ELSE ": "
    IN CASE x.t = "null" -> "null"
         [] x.t = "undefined" -> "null"
         [] x.t = "boolean" -> IF x.v THEN "true" ELSE "false"
         [] x.t = "number" -> IF x.v < 0 THEN "-" \o NatToString(0 - x.v) ELSE NatToString(x.v)
         [] x.t = "string" -> Quote(x.v)
         [] x.t = "array" ->
              IF x.v = <<>> THEN "[]"
              ELSE open("[")
                   \o Join([i \in 1..Len(x.v) |-> StringifyAt(x.v[i], gap, inner)], sep)
                   \o close("]")
         [] x.t = "object" ->
              LET ms == SelectMembers(x.v) IN
              IF ms = <<>> THEN "{}"
              ELSE open("{")
                   \o Join([i \in 1..Len(ms) |->
                              Quote(ms[i][1]) \o colon \o StringifyAt(ms[i][2], gap, inner)], sep)
                   \o close("}")

\* JSON.stringify(x)
JSONStringify(x) == StringifyAt(x, "", "")

\* JSON.stringify(x, null, 2)
JSONStringifyPretty(x) == StringifyAt(x, "  ", "")

(***************************************************************************)
(* The relay endpoint: POST of src/app/api/analyze-image/route.ts.         *)
(***************************************************************************)
\* A File of the multipart form.
File(type, size) == [t |-> "file", type |-> type, size |-> size]

\* const maxSize = 10 * 1024 * 1024
maxSize == 10 * 1024 * 1024

NoResponse == [status |-> 0, body |-> Undefined]

\* The external call's result: none yet, the content it returned, or the value thrown.
NoResult == [kind |-> "none"]
Returned(content) == [kind |-> "returned", content |-> content]
Threw(err) == [kind |-> "thrown", thrown |-> err]

\* NextResponse.json(body, { status })
NextResponseJson(body, status) == [status |-> status, body |-> body]

ErrorBody(msg) == Obj(<< <<"error", Str(msg)>> >>)

\* A thrown value: error?.error?.type, error instanceof Error, error.message.
Thrown(etype, isError, message) == [etype |-> etype, isError |-> isError, message |-> message]

TypeError(message) == Thrown(Undefined, TRUE, message)

\* The switch on error.error.type (lines 221-236).
TypedError(etype) ==
    CASE etype = Str("invalid_request_error") ->
           NextResponseJson(ErrorBody("Invalid request to AI service"), 400)
      [] etype = Str("authentication_error") ->
           NextResponseJson(ErrorBody("AI service authentication failed"), 401)
      [] etype = Str("permission_error") ->
           NextResponseJson(ErrorBody("Permission denied for AI service"), 403)
      [] etype = Str("rate_limit_error") ->
           NextResponseJson(ErrorBody("Rate limit exceeded. Please try again in a moment"), 429)
      [] etype = Str("api_error") ->
           NextResponseJson(ErrorBody("AI service temporarily unavailable"), 502)
      [] etype = Str("overloaded_error") ->
           NextResponseJson(ErrorBody("AI service is overloaded. Please try again"), 503)
      [] OTHER ->
           NextResponseJson(ErrorBody("AI service error occurred"), 500)

\* The network and other errors, answering with the thrown message where no keyword matches.
UntypedErrorLeaking(err) ==
    IF err.isError /\ Includes(err.message, "fetch")
    THEN NextResponseJson(ErrorBody("Network error. Please check your connection"), 503)
    ELSE IF err.isError /\ Includes(err.message, "timeout")
    THEN NextResponseJson(ErrorBody("Request timed out. Please try again"), 408)
    ELSE IF err.isError /\ Includes(err.message, "API key")
    THEN NextResponseJson(ErrorBody("AI service configuration error"), 500)
    ELSE NextResponseJson(ErrorBody(err.message), 500)

\* The network and other errors with the timeout test ahead of the fetch test.
UntypedErrorTimeoutFirst(err) ==
    IF err.isError /\ Includes(err.message, "timeout")
    THEN NextResponseJson(ErrorBody("Request timed out. Please try again"), 408)
    ELSE IF err.isError /\ Includes(err.message, "fetch")
    THEN NextResponseJson(ErrorBody("Network error. Please check your connection"), 503)
    ELSE IF err.isError /\ Includes(err.message, "API key")
    THEN NextResponseJson(ErrorBody("AI service configuration error"), 500)
    ELSE NextResponseJson(ErrorBody("Internal server error occurred"), 500)

\* The network and other errors (lines 239-252).
UntypedError(err) ==
    IF err.isError /\ Includes(err.message, "fetch")
    THEN NextResponseJson(ErrorBody("Network error. Please check your connection"), 503)
    ELSE IF err.isError /\ Includes(err.message, "timeout")
    THEN NextResponseJson(ErrorBody("Request timed out. Please try again"), 408)
    ELSE IF err.isError /\ Includes(err.message, "API key")
    THEN NextResponseJson(ErrorBody("AI service configuration error"), 500)
    ELSE NextResponseJson(ErrorBody("Internal server error occurred"), 500)

\* The catch block classifying by the message before the upstream type.
HandleErrorMessageFirst(err) ==
    IF err.isError /\ (Includes(err.message, "fetch") \/ Includes(err.message, "timeout")
                       \/ Includes(err.message, "API key"))
    THEN UntypedError(err)
    ELSE IF Truthy(err.etype) THEN TypedError(err.etype) ELSE UntypedError(err)

\* The catch block throwing on what is not an Error: the handler ends with no response.
HandleErrorRethrown(err) ==
    IF Truthy(err.etype) THEN TypedError(err.etype)
    ELSE IF err.isError THEN UntypedError(err)
    ELSE NoResponse

\* The catch block of POST: the fixed mapping from a thrown value to a response.
HandleError(err) ==
    IF Truthy(err.etype) THEN TypedError(err.etype) ELSE UntypedError(err)

\* What the checks before the call come to: a response to return, a value thrown
\* into the catch block, or the go-ahead for the call.
Return(resp) == [kind |-> "return", resp |-> resp]
Throw(err) == [kind |-> "throw", thrown |-> err]
Proceed == [kind |-> "call"]

\* The checks with the API key check left out.
CheckKeySkipped(req, key) == Proceed

\* Validate API key (lines 41-45).
CheckKey(req, key) ==
    IF ~Truthy(key)
    THEN Return(NextResponseJson(ErrorBody("AI service not configured"), 500))
    ELSE Proceed

\* The size check with >= for >.
CheckSizeInclusive(req, key) ==
    IF req.image.size >= maxSize
    THEN Return(NextResponseJson(ErrorBody("Image file too large. Maximum size is 10MB"), 400))
    ELSE CheckKey(req, key)

\* Validate file size (lines 30-34).
CheckSize(req, key) ==
    IF req.image.size > maxSize
    THEN Return(NextResponseJson(ErrorBody("Image file too large. Maximum size is 10MB"), 400))
    ELSE CheckKey(req, key)

\* The checks with the file-type check left out.
CheckTypeSkipped(req, key) ==
    IF req.image.t # "file"
    THEN Throw(TypeError("Cannot read properties of undefined (reading 'startsWith')"))
    ELSE CheckSize(req, key)

\* Validate file type (lines 25-28): image.type is undefined, and startsWith throws,
\* when image is a text field or null.
CheckType(req, key) ==
    IF req.image.t # "file"
    THEN Throw(TypeError("Cannot read properties of undefined (reading 'startsWith')"))
    ELSE IF ~StartsWith(req.image.type, "image/")
    THEN Return(NextResponseJson(ErrorBody("File must be an image"), 400))
    ELSE CheckSize(req, key)

\* The checks with `if (!image)` left out: image.type throws on null.
CheckImageSkipped(req, key) ==
    IF req.image.t = "null"
    THEN Throw(TypeError("Cannot read properties of null (reading 'type')"))
    ELSE CheckType(req, key)

\* if (!image) (lines 21-23).
CheckImage(req, key) ==
    IF ~Truthy(req.image)
    THEN Return(NextResponseJson(ErrorBody("No image file provided"), 400))
    ELSE CheckType(req, key)

\* The checks of POST before the external call (lines 10-45).
PreCall(req, key) ==
    IF ~req.hasBody
    THEN Return(NextResponseJson(ErrorBody("No request body provided"), 400))
    ELSE CheckImage(req, key)

\* The response when POST ends before the call: the one returned, or the catch block's.
Caught(r) == IF r.kind = "throw" THEN HandleError(r.thrown) ELSE r.resp

\* contextualInfo with each value trimmed before it is appended.
contextualInfoTrimmed(req) ==
    (IF Truthy(req.complaintType)
     THEN "\nUser complaint type: " \o Trim(req.complaintType.v) ELSE "")
    \o (IF Truthy(req.location)
        THEN "\nReported location: " \o Trim(req.location.v) ELSE "")
    \o (IF Truthy(req.description)
        THEN "\nUser description: " \o Trim(req.description.v) ELSE "")

\* let contextualInfo = "" ... (lines 50-59)
contextualInfo(req) ==
    (IF Truthy(req.complaintType)
     THEN "\nUser complaint type: " \o req.complaintType.v ELSE "")
    \o (IF Truthy(req.location)
        THEN "\nReported location: " \o req.location.v ELSE "")
    \o (IF Truthy(req.description)
        THEN "\nUser description: " \o req.description.v ELSE "")

\* The one message sent to the model: the contextual part of analysisPrompt
\* and the image's data URL (its MIME type; the base64 payload is the file).
ChatRequest(req) ==
    [contextualInfo |-> contextualInfo(req), mimeType |-> req.image.type,
     model |-> "gpt-4o", detail |-> "high"]

\* enhancedResponse with complaint_type and location taken from each other's field.
enhancedResponseSwapped(req, parsed, timestamp) ==
    Obj(<< <<"analysis", parsed>>,
           <<"metadata",
             Obj(<< <<"timestamp", Str(timestamp)>>,
                    <<"image_size", Num(req.image.size)>>,
                    <<"user_context",
                      Obj(<< <<"complaint_type", OrElse(req.location, Null)>>,
                             <<"location", OrElse(req.complaintType, Null)>>,
                             <<"description", OrElse(req.description, Null)>> >>)>> >>)>> >>)

\* const enhancedResponse = { analysis, metadata } (lines 195-206)
enhancedResponse(req, parsed, timestamp) ==
    Obj(<< <<"analysis", parsed>>,
           <<"metadata",
             Obj(<< <<"timestamp", Str(timestamp)>>,
                    <<"image_size", Num(req.image.size)>>,
                    <<"user_context",
                      Obj(<< <<"complaint_type", OrElse(req.complaintType, Null)>>,
                             <<"location", OrElse(req.location, Null)>>,
                             <<"description", OrElse(req.description, Null)>> >>)>> >>)>> >>)

\* Normalize answering with the text where it should answer with the parsed value.
NormalizeUnparsed(req, content, r, timestamp) ==
    NextResponseJson(Obj(<< <<"analysis", content>>, <<"raw", Bool(TRUE)>> >>), 200)

\* Normalize answering a parse failure with a failure status.
NormalizeStrict(req, content, r, timestamp) ==
    IF r.ok
    THEN NextResponseJson(enhancedResponse(req, r.val, timestamp), 200)
    ELSE NextResponseJson(ErrorBody("Invalid analysis format"), 500)

\* The try/catch around JSON.parse(analysis), lines 190-213.
Normalize(req, content, r, timestamp) ==
    IF r.ok
    THEN NextResponseJson(enhancedResponse(req, r.val, timestamp), 200)
    ELSE NextResponseJson(Obj(<< <<"analysis", content>>, <<"raw", Bool(TRUE)>> >>), 200)

\* AfterCall testing the content for emptiness without trimming it.
AfterCallUntrimmed(req, content, timestamp) ==
    IF ~Truthy(content)
    THEN NextResponseJson(ErrorBody("No analysis generated"), 500)
    ELSE Normalize(req, content, JSONParse(content.v), timestamp)

\* POST after the external call has returned `content`
\* (response.choices[0]?.message?.content), lines 183-213.
AfterCall(req, content, timestamp) ==
    IF ~Truthy(content) \/ Len(Trim(content.v)) = 0
    THEN NextResponseJson(ErrorBody("No analysis generated"), 500)
    ELSE Normalize(req, content, JSONParse(content.v), timestamp)

(***************************************************************************)
(* The presentation client: ImageAnalyzer of src/unnamed/part_000.         *)
(***************************************************************************)
\* String(x), as new Error(x) and template literals convert a value.
RECURSIVE JsToString(_)
JsToString(x) ==
    CASE x.t = "string" -> x.v
      [] x.t = "number" -> JSONStringify(x)
      [] x.t = "boolean" -> JSONStringify(x)
      [] x.t = "null" -> "null"
      [] x.t = "undefined" -> "undefined"
      [] x.t = "array" ->
           Join([i \in 1..Len(x.v) |->
                   IF x.v[i].t \in {"null", "undefined"} THEN "" ELSE JsToString(x.v[i])], ",")
      [] OTHER -> "[object Object]"

\* The fence stripping with the closing fence left in place.
StripTrimmedOpeningOnly(cleanAnalysis) ==
    IF StartsWith(cleanAnalysis, FenceJson)
    THEN Trim(ReplacePrefix(cleanAnalysis, FenceJson))
    ELSE IF StartsWith(cleanAnalysis, Fence)
    THEN Trim(ReplacePrefix(cleanAnalysis, Fence))
    ELSE cleanAnalysis

\* The code-fence stripping of analyzeImage (lines 135-140).
StripTrimmed(cleanAnalysis) ==
    IF StartsWith(cleanAnalysis, FenceJson)
    THEN Trim(ReplaceSuffix(ReplacePrefix(cleanAnalysis, FenceJson), Fence))
    ELSE IF StartsWith(cleanAnalysis, Fence)
    THEN Trim(ReplaceSuffix(ReplacePrefix(cleanAnalysis, Fence), Fence))
    ELSE cleanAnalysis

StripFence(analysisData) == StripTrimmed(Trim(analysisData))

\* parsedData for a string analysisData (lines 131, 135-145): null when JSON.parse throws.
ParsedOrNull(r) == IF r.ok THEN r.val ELSE Null

ParseAnalysisString(analysisData) == ParsedOrNull(JSONParse(StripFence(analysisData)))

\* The outcome of fetch: a rejection, or a response with its content-type header,
\* status and body text.
FetchNone == [kind |-> "none"]
FetchRejected == [kind |-> "reject"]
HttpResponse(contentType, status, body) ==
    [kind |-> "response", contentType |-> contentType, status |-> status, body |-> body]

\* The message analyzeImage's catch block shows for a thrown Error (lines 153-163).
errorMessage(message) ==
    IF Includes(message, "Failed to fetch")
    THEN "Network error. Please check your connection and try again."
    ELSE IF Includes(message, "invalid response format")
    THEN "Server error. Please try again in a moment."
    ELSE message

\* The state setters analyzeImage has called when it reaches `finally`, after
\* throwing an Error with `message`: setError, and setAnalysis when `shown` is a string.
Failed(message, shown) ==
    [error |-> Str(errorMessage(message)),
     sets |-> IF shown = Undefined THEN [analysis |-> FALSE]
              ELSE [analysis |-> TRUE, value |-> shown]]

\* setAnalysis's argument (line 128).
Shown(analysisData) ==
    IF TypeOf(analysisData) = "string" THEN analysisData
    ELSE Str(JSONStringifyPretty(analysisData))

\* analyzeImage with no try/catch around JSON.parse: a parse failure is thrown.
HandleAnalysisThrowing(analysisData, data) ==
    IF TypeOf(analysisData) \notin {"object", "string"}
    THEN Failed("analysisData.trim is not a function", Shown(analysisData))
    ELSE IF TypeOf(analysisData) = "string" /\ ~JSONParse(StripFence(analysisData.v)).ok
    THEN Failed("Unexpected token in JSON", Shown(analysisData))
    ELSE [error |-> Null,
          sets |-> [analysis |-> TRUE, value |-> Shown(analysisData)],
          parsedAnalysis |-> IF TypeOf(analysisData) = "object" THEN analysisData
                             ELSE ParseAnalysisString(analysisData.v),
          userContext |-> Get(data, "user_context")]

\* analyzeImage from `const analysisData = data.analysis` on (lines 127-149).
HandleAnalysis(analysisData, data) ==
    IF TypeOf(analysisData) \notin {"object", "string"}
    THEN \* thrown by analysisData.trim(), after setAnalysis
         Failed("analysisData.trim is not a function", Shown(analysisData))
    ELSE [error |-> Null,
          sets |-> [analysis |-> TRUE, value |-> Shown(analysisData)],
          parsedAnalysis |-> IF TypeOf(analysisData) = "object" THEN analysisData
                             ELSE ParseAnalysisString(analysisData.v),
          userContext |-> Get(data, "user_context")]

\* analyzeImage once response.json() has delivered `data` (lines 118-149).
HandleData(data, status) ==
    IF status \notin 200..299
    THEN IF data.t = "null"
         THEN Failed("Cannot read properties of null (reading 'error')", Undefined)
         ELSE IF Truthy(Get(data, "error"))
         THEN Failed(JsToString(Get(data, "error")), Undefined)
         ELSE Failed("Server error: " \o NatToString(status), Undefined)
    ELSE IF data.t = "null"
    THEN Failed("Cannot read properties of null (reading 'analysis')", Undefined)
    ELSE IF ~Truthy(Get(data, "analysis"))
    THEN Failed("No analysis received from server", Undefined)
    ELSE HandleAnalysis(Get(data, "analysis"), data)

\* response.json(): the parsed body, or the SyntaxError of JSON.parse.
HandleJson(json, status) ==
    IF json.ok THEN HandleData(json.val, status)
    ELSE Failed("Unexpected token in JSON", Undefined)

\* analyzeImage with no test of the response's content type.
HandleOutcomeAnyType(outcome) ==
    IF outcome.kind = "reject" THEN Failed("Failed to fetch", Undefined)
    ELSE HandleJson(JSONParse(outcome.body), outcome.status)

\* What analyzeImage does with the outcome of its fetch (lines 104-165): the error it
\* sets (null when it throws nothing) and the other state it sets; a setter not called
\* leaves the state as it was.
HandleOutcome(outcome) ==
    IF outcome.kind = "reject" THEN Failed("Failed to fetch", Undefined)
    ELSE IF ~Truthy(outcome.contentType)
            \/ ~Includes(outcome.contentType.v, "application/json")
    THEN Failed("Server returned an invalid response format", Undefined)
    ELSE HandleJson(JSONParse(outcome.body), outcome.status)

(***************************************************************************)
(* The inputs of the relay.                                                *)
(***************************************************************************)
\* The characters of the enumerated model outputs.
Sigma == {"{", "}", "\"", "1", " "}

RECURSIVE StringsOfLen(_)
StringsOfLen(n) ==
    IF n = 0 THEN {""} ELSE {s \o c : s \in StringsOfLen(n - 1), c \in Sigma}

\* Every text over Sigma of at most MaxTextLen characters, and some longer JSON texts.
Cores ==
    UNION {StringsOfLen(n) : n \in 0..MaxTextLen}
    \cup {"0", "null", "true", "false", "[]", "{\"a\":1}", "\n"}

\* The model's text output: a core, bare or inside a (possibly unclosed) code fence.
ModelTexts ==
    {p \o c \o q : p \in {"", FenceJson \o "\n", Fence}, c \in Cores, q \in {"", "\n" \o Fence}}

\* response.choices[0]?.message?.content
ExtContents == {Undefined, Null} \cup {Str(t) : t \in ModelTexts}

ErrorTypes ==
    {Undefined, Str(""), Str("invalid_request_error"), Str("authentication_error"),
     Str("permission_error"), Str("rate_limit_error"), Str("api_error"),
     Str("overloaded_error"), Str("server_error")}

ErrorMessages ==
    {"", "fetch failed", "Request timeout", "Missing API key", "Connection error.",
     "Request timed out.", "fetch timeout: API key", "timeout with API key"}

\* What the external call, or the code after it, can throw.
ExtErrors == {Thrown(ty, ie, m) : ty \in ErrorTypes, ie \in BOOLEAN, m \in ErrorMessages}

\* new Date().toISOString()
Timestamps == {"2025-01-01T00:00:00.000Z", "2025-01-01T00:00:01.000Z"}

\* formData.get of an optional text field: null when absent, else the string.
FieldValues == {Null, Str(""), Str(" John Doe: pothole near gate ")}

\* formData.get("complaintType") and formData.get("location"): the same, with texts of
\* their own; the location has a quote, a new line, a backslash and a placeholder in it.
ComplaintTypeValues == {Null, Str(""), Str("pothole")}

LocationValues == {Null, Str(""), Str("5th \"N\"\n\\ ${x} ")}

ImageSizes == {2 * 1024 * 1024, maxSize, maxSize + 1}

\* formData.get("image"): absent, a text field, or a file.
Images ==
    {Null, Str(""), Str("x")}
    \cup {File(ty, sz) : ty \in {"image/png", "text/plain", "ximage/png"}, sz \in ImageSizes}

Requests ==
    [hasBody : BOOLEAN, image : Images, complaintType : ComplaintTypeValues,
     location : LocationValues, description : FieldValues]

ApiKeys == {Undefined, Str(""), Str("sk-test")}

(***************************************************************************)
(* The relay as a state machine: one request through POST.                 *)
(***************************************************************************)
\* The handlers of the requests handled at once.
Handlers == {"h1", "h2"}

NoRequest ==
    [hasBody |-> FALSE, image |-> Null, complaintType |-> Null, location |-> Null,
     description |-> Null]

\* The local state of a POST handler: its request, where it stands, the calls it made
\* to the external model, what its call did, and the response it returned.
Handler(req, at) ==
    [request |-> req, pc |-> at, calls |-> <<>>, result |-> NoResult, response |-> NoResponse]

\* No request is being handled at once with another.
NoHandlers == [h \in Handlers |-> Handler(NoRequest, "idle")]

RelayInit ==
    /\ request \in Requests
    /\ apiKey \in ApiKeys
    /\ pc = "start"
    /\ extCalls = <<>>
    /\ extResult = NoResult
    /\ response = NoResponse
    /\ handlers = NoHandlers

\* The relay with no request: the state of the relay's variables in the other specifications.
RelayIdle ==
    /\ request = NoRequest
    /\ apiKey = Undefined
    /\ pc = "idle"
    /\ extCalls = <<>>
    /\ extResult = NoResult
    /\ response = NoResponse
    /\ handlers = NoHandlers

\* POST up to the external call: lines 8-157, and the catch block when a check throws.
Validate ==
    /\ pc = "start"
    /\ IF PreCall(request, apiKey).kind = "call"
       THEN /\ extCalls' = Append(extCalls, ChatRequest(request))
            /\ pc' = "awaiting"
            /\ response' = response
       ELSE /\ response' = Caught(PreCall(request, apiKey))
            /\ pc' = "done"
            /\ extCalls' = extCalls
    /\ UNCHANGED <<request, apiKey, extResult, handlers, clientVars, parserVars>>

\* The external call returns: lines 181-213.
ExternalReturns ==
    /\ pc = "awaiting"
    /\ \E content \in ExtContents, ts \in Timestamps :
          /\ extResult' = Returned(content)
          /\ response' = AfterCall(request, content, ts)
    /\ pc' = "done"
    /\ UNCHANGED <<request, apiKey, extCalls, handlers, clientVars, parserVars>>

\* The external call throws and a rate-limited call is issued once more.
ExternalThrowsRetrying ==
    /\ pc = "awaiting"
    /\ \E err \in ExtErrors :
          IF err.etype = Str("rate_limit_error") /\ Len(extCalls) < 2
          THEN /\ extCalls' = Append(extCalls, ChatRequest(request))
               /\ UNCHANGED <<pc, extResult, response>>
          ELSE /\ extResult' = Threw(err)
               /\ response' = HandleError(err)
               /\ pc' = "done"
               /\ extCalls' = extCalls
    /\ UNCHANGED <<request, apiKey, handlers, clientVars, parserVars>>

\* The external call throws: lines 215-253.
ExternalThrows ==
    /\ pc = "awaiting"
    /\ \E err \in ExtErrors :
          /\ extResult' = Threw(err)
          /\ response' = HandleError(err)
    /\ pc' = "done"
    /\ UNCHANGED <<request, apiKey, extCalls, handlers, clientVars, parserVars>>

(***************************************************************************)
(* The relay handling two requests at once: each POST handler runs from    *)
(* one `await` to the next (request.formData(), image.arrayBuffer(), the   *)
(* external call), and the steps of the handlers interleave.  The state    *)
(* outside a handler is what the module holds: the environment's key.      *)
(***************************************************************************)
\* The requests handled at once: valid uploads with and without notes, a file that is no
\* image, an image above the limit, no image and no body.
ConcurrentRequests ==
    {[hasBody |-> TRUE, image |-> File("image/png", 2 * 1024 * 1024),
      complaintType |-> Str("pothole"), location |-> Null,
      description |-> Str(" John Doe: pothole near gate ")],
     [hasBody |-> TRUE, image |-> File("image/png", maxSize),
      complaintType |-> Null, location |-> Str("5th \"N\"\n\\ ${x} "), description |-> Null],
     [hasBody |-> TRUE, image |-> File("text/plain", 2 * 1024 * 1024),
      complaintType |-> Null, location |-> Null, description |-> Null],
     [hasBody |-> TRUE, image |-> File("image/png", maxSize + 1),
      complaintType |-> Null, location |-> Null, description |-> Null],
     [hasBody |-> TRUE, image |-> Null,
      complaintType |-> Null, location |-> Null, description |-> Str("no image")],
     NoRequest}

\* What the external call returns to a handler, and what it throws.
ConcurrentContents == {Undefined, Str("{}"), Str("1"), Str(Fence \o "{}")}

ConcurrentErrors ==
    {Thrown(Str("rate_limit_error"), TRUE, "Rate limit reached"),
     Thrown(Undefined, TRUE, "fetch failed")}

ConcurrentRelayInit ==
    /\ request = NoRequest
    /\ apiKey \in ApiKeys
    /\ pc = "idle"
    /\ extCalls = <<>>
    /\ extResult = NoResult
    /\ response = NoResponse
    /\ handlers \in [Handlers -> {Handler(req, "start") : req \in ConcurrentRequests}]

\* The handler ends with the response `resp`.
Ended(l, resp) == [l EXCEPT !.pc = "done", !.response = resp]

\* The checks between formData() and arrayBuffer() (lines 21-34): the checks from
\* `if (!image)` on, up to the key check, which a key that is set passes.
ImageChecks(req) == CheckImage(req, Str("set"))

\* The handler after the external call returned, its response built from the form
\* fields of the other handler where that one has read its form (as if the fields were
\* kept in variables of the module).
HandlerReturnedSharedFields(hs, h, content, timestamp) ==
    LET g == CHOOSE g \in Handlers : g # h
        fields == IF hs[g].pc \in {"start", "idle"} THEN hs[h].request
                  ELSE [hs[h].request EXCEPT !.complaintType = hs[g].request.complaintType,
                                            !.location = hs[g].request.location,
                                            !.description = hs[g].request.description]
    IN [hs[h] EXCEPT !.pc = "done", !.result = Returned(content),
                     !.response = AfterCall(fields, content, timestamp)]

\* The handler after the external call returned `content` (lines 181-213).
HandlerReturned(hs, h, content, timestamp) ==
    [hs[h] EXCEPT !.pc = "done", !.result = Returned(content),
                  !.response = AfterCall(hs[h].request, content, timestamp)]

\* POST up to `await request.formData()` (lines 8-15).
handlerReadsForm(h) ==
    /\ handlers[h].pc = "start"
    /\ handlers' =
         [handlers EXCEPT ![h] =
            IF ~handlers[h].request.hasBody
            THEN Ended(handlers[h], Caught(PreCall(handlers[h].request, apiKey)))
            ELSE [handlers[h] EXCEPT !.pc = "formData"]]
    /\ UNCHANGED <<request, apiKey, pc, extCalls, extResult, response, clientVars, parserVars>>

\* POST from the form data to `await image.arrayBuffer()` (lines 16-37).
handlerReadsImage(h) ==
    /\ handlers[h].pc = "formData"
    /\ handlers' =
         [handlers EXCEPT ![h] =
            IF ImageChecks(handlers[h].request).kind = "call"
            THEN [handlers[h] EXCEPT !.pc = "arrayBuffer"]
            ELSE Ended(handlers[h], Caught(ImageChecks(handlers[h].request)))]
    /\ UNCHANGED <<request, apiKey, pc, extCalls, extResult, response, clientVars, parserVars>>

\* POST from the image's bytes to the external call (lines 38-179).
handlerCalls(h) ==
    /\ handlers[h].pc = "arrayBuffer"
    /\ handlers' =
         [handlers EXCEPT ![h] =
            IF CheckKey(handlers[h].request, apiKey).kind = "call"
            THEN [handlers[h] EXCEPT !.pc = "awaiting",
                                     !.calls = <<ChatRequest(handlers[h].request)>>]
            ELSE Ended(handlers[h], Caught(CheckKey(handlers[h].request, apiKey)))]
    /\ UNCHANGED <<request, apiKey, pc, extCalls, extResult, response, clientVars, parserVars>>

\* The handler's external call returns (lines 181-213).
handlerReturns(h) ==
    /\ handlers[h].pc = "awaiting"
    /\ \E content \in ConcurrentContents, ts \in Timestamps :
          handlers' = [handlers EXCEPT ![h] = HandlerReturned(handlers, h, content, ts)]
    /\ UNCHANGED <<request, apiKey, pc, extCalls, extResult, response, clientVars, parserVars>>

\* The handler's external call throws (lines 215-253).
handlerThrows(h) ==
    /\ handlers[h].pc = "awaiting"
    /\ \E err \in ConcurrentErrors :
          handlers' =
            [handlers EXCEPT ![h] =
               [handlers[h] EXCEPT !.pc = "done", !.result = Threw(err),
                                   !.response = HandleError(err)]]
    /\ UNCHANGED <<request, apiKey, pc, extCalls, extResult, response, clientVars, parserVars>>

(***************************************************************************)
(* The client as a state machine: the handlers of ImageAnalyzer.           *)
(***************************************************************************)
\* The files a user can pick: two images (the second above the relay's limit) and a text file.
ClientFiles ==
    {File("image/png", 2 * 1024 * 1024), File("image/jpeg", maxSize + 1),
     File("text/plain", 1024)}

\* reader.readAsDataURL(file): the data URL onload delivers.
DataUrl(file) == Str("data:" \o file.type \o ";base64," \o NatToString(file.size))

UserDetailsValues == {"", " John Doe: pothole near gate "}

\* The form data analyzeImage posts (lines 98-102), as the relay reads it.
FormData(image, details) ==
    [hasBody |-> TRUE, image |-> image, complaintType |-> Null, location |-> Null,
     description |-> IF Trim(details) # "" THEN Str(Trim(details)) ELSE Null]

\* NextResponse.json on the wire: the JSON content type and the body's JSON text.
Wire(resp) == HttpResponse(Str("application/json"), resp.status, JSONStringify(resp.body))

RawBody(text) == Obj(<< <<"analysis", Str(text)>>, <<"raw", Bool(TRUE)>> >>)

\* The outcomes of a fetch in the client's state machine: a rejection, pages that are
\* not JSON, a failure of the relay, and 200 bodies of the relay with unparsed text, an
\* object and a number.
ClientOutcomes ==
    {FetchRejected,
     HttpResponse(Null, 502, "<html>"),
     HttpResponse(Str("text/html"), 200, "{\"analysis\":\"{}\",\"raw\":true}"),
     Wire(NextResponseJson(ErrorBody("Rate limit exceeded. Please try again in a moment"), 429)),
     Wire(NextResponseJson(RawBody("no JSON"), 200))}
    \cup {Wire(NextResponseJson(
                 enhancedResponse(FormData(File("image/png", 2 * 1024 * 1024), ""),
                                  JSONParse(t).val, "2025-01-01T00:00:00.000Z"), 200))
           : t \in {"{}", "1"}}

\* The handler that ran last: its name, and what it was given: for onDrop the accepted
\* files, for the end of analyzeImage the form data of the request that settled.
Event(name, data) == [name |-> name, data |-> data]

ClientInit ==
    /\ uploadedImage = Null
    /\ imagePreview = Null
    /\ isAnalyzing = FALSE
    /\ analysis = Null
    /\ parsedAnalysis = Null
    /\ error = Null
    /\ userDetails = ""
    /\ userContext = Null
    /\ readers = <<>>
    /\ inflight = <<>>
    /\ settled = FetchNone
    /\ event = Event("mount", <<>>)

\* onDrop staging whatever file it is given.
onDropAnyFile ==
    /\ Len(readers) < MaxReaders
    /\ \E acceptedFiles \in {<<>>} \cup {<<f>> : f \in ClientFiles} :
          /\ event' = Event("onDrop", acceptedFiles)
          /\ IF acceptedFiles # <<>>
             THEN /\ uploadedImage' = acceptedFiles[1]
                  /\ analysis' = Null
                  /\ error' = Null
                  /\ readers' = Append(readers, acceptedFiles[1])
             ELSE UNCHANGED <<uploadedImage, analysis, error, readers>>
    /\ UNCHANGED <<imagePreview, isAnalyzing, parsedAnalysis, userDetails, userContext,
                   inflight, settled, relayVars, parserVars>>

\* onDrop (lines 61-74) with the files react-dropzone accepted.
onDrop ==
    /\ Len(readers) < MaxReaders
    /\ \E acceptedFiles \in {<<>>} \cup {<<f>> : f \in ClientFiles} :
          /\ event' = Event("onDrop", acceptedFiles)
          /\ IF acceptedFiles # <<>> /\ StartsWith(acceptedFiles[1].type, "image/")
             THEN /\ uploadedImage' = acceptedFiles[1]
                  /\ analysis' = Null
                  /\ error' = Null
                  /\ readers' = Append(readers, acceptedFiles[1])
             ELSE UNCHANGED <<uploadedImage, analysis, error, readers>>
    /\ UNCHANGED <<imagePreview, isAnalyzing, parsedAnalysis, userDetails, userContext,
                   inflight, settled, relayVars, parserVars>>

\* reader.onload (lines 69-71) of one of the pending loads.
readerOnload ==
    /\ \E i \in 1..Len(readers) :
          /\ imagePreview' = DataUrl(readers[i])
          /\ readers' = SubSeq(readers, 1, i - 1) \o SubSeq(readers, i + 1, Len(readers))
    /\ event' = Event("onload", <<>>)
    /\ UNCHANGED <<uploadedImage, isAnalyzing, analysis, parsedAnalysis, error, userDetails,
                   userContext, inflight, settled, relayVars, parserVars>>

\* clearImage without setError(null).
clearImageKeepsError ==
    /\ Truthy(imagePreview)
    /\ uploadedImage' = Null
    /\ imagePreview' = Null
    /\ analysis' = Null
    /\ event' = Event("clearImage", <<>>)
    /\ UNCHANGED <<isAnalyzing, parsedAnalysis, error, userDetails, userContext, readers,
                   inflight, settled, relayVars, parserVars>>

\* clearImage (lines 84-89): its button is rendered over the preview (lines 337-354).
clearImage ==
    /\ Truthy(imagePreview)
    /\ uploadedImage' = Null
    /\ imagePreview' = Null
    /\ analysis' = Null
    /\ error' = Null
    /\ event' = Event("clearImage", <<>>)
    /\ UNCHANGED <<isAnalyzing, parsedAnalysis, userDetails, userContext, readers, inflight,
                   settled, relayVars, parserVars>>

\* The textarea's onChange (line 322).
setUserDetails ==
    /\ \E v \in UserDetailsValues \ {userDetails} : userDetails' = v
    /\ event' = Event("setUserDetails", <<>>)
    /\ UNCHANGED <<uploadedImage, imagePreview, isAnalyzing, analysis, parsedAnalysis, error,
                   userContext, readers, inflight, settled, relayVars, parserVars>>

\* analyzeImage from a button that is not disabled while isAnalyzing.
analyzeImageWhileAnalyzing ==
    /\ Truthy(uploadedImage)
    /\ isAnalyzing' = TRUE
    /\ error' = Null
    /\ inflight' = Append(inflight, FormData(uploadedImage, userDetails))
    /\ event' = Event("analyzeImage", <<>>)
    /\ UNCHANGED <<uploadedImage, imagePreview, analysis, parsedAnalysis, userDetails,
                   userContext, readers, settled, relayVars, parserVars>>

\* analyzeImage up to its fetch (lines 91-107), from the Analyze button: the button is
\* rendered when an image is staged and disabled while isAnalyzing (lines 388-392).
analyzeImage ==
    /\ Truthy(uploadedImage)
    /\ ~isAnalyzing
    /\ isAnalyzing' = TRUE
    /\ error' = Null
    /\ inflight' = Append(inflight, FormData(uploadedImage, userDetails))
    /\ event' = Event("analyzeImage", <<>>)
    /\ UNCHANGED <<uploadedImage, imagePreview, analysis, parsedAnalysis, userDetails,
                   userContext, readers, settled, relayVars, parserVars>>

\* The Try Again button calling analyzeImage alone, without setError(null) before it.
tryAgainAnalyzeOnly ==
    /\ ~isAnalyzing
    /\ Truthy(error)
    /\ IF Truthy(uploadedImage)
       THEN /\ isAnalyzing' = TRUE
            /\ error' = Null
            /\ inflight' = Append(inflight, FormData(uploadedImage, userDetails))
       ELSE UNCHANGED <<isAnalyzing, error, inflight>>
    /\ event' = Event("tryAgain", <<>>)
    /\ UNCHANGED <<uploadedImage, imagePreview, analysis, parsedAnalysis, userDetails,
                   userContext, readers, settled, relayVars, parserVars>>

\* The Try Again button (lines 473-482), rendered when not analyzing and error is set.
tryAgain ==
    /\ ~isAnalyzing
    /\ Truthy(error)
    /\ error' = Null
    /\ IF Truthy(uploadedImage)
       THEN /\ isAnalyzing' = TRUE
            /\ inflight' = Append(inflight, FormData(uploadedImage, userDetails))
       ELSE UNCHANGED <<isAnalyzing, inflight>>
    /\ event' = Event("tryAgain", <<>>)
    /\ UNCHANGED <<uploadedImage, imagePreview, analysis, parsedAnalysis, userDetails,
                   userContext, readers, settled, relayVars, parserVars>>

\* The state setters of analyzeImage, as HandleOutcome lists them.
Apply(h) ==
    /\ analysis' = IF h.sets.analysis THEN h.sets.value ELSE analysis
    /\ IF h.error = Null
       THEN /\ parsedAnalysis' = h.parsedAnalysis
            /\ userContext' = h.userContext
            /\ error' = error
       ELSE /\ error' = h.error
            /\ UNCHANGED <<parsedAnalysis, userContext>>

\* Each outcome of `outcomes` with what analyzeImage does with it.
Handled(outcomes) == {[outcome |-> o, h |-> HandleOutcome(o)] : o \in outcomes}

\* analyzeImage with setIsAnalyzing(false) at the end of `try` in place of `finally`.
fetchSettlesWithNoFinally(handled) ==
    /\ \E i \in 1..Len(inflight), p \in handled :
          /\ inflight' = SubSeq(inflight, 1, i - 1) \o SubSeq(inflight, i + 1, Len(inflight))
          /\ settled' = p.outcome
          /\ event' = Event(IF p.h.error = Null THEN "success" ELSE "failure",
                            <<inflight[i]>>)
          /\ Apply(p.h)
          /\ isAnalyzing' = (p.h.error # Null)
    /\ UNCHANGED <<uploadedImage, imagePreview, userDetails, readers, relayVars, parserVars>>

\* analyzeImage from the settling of its fetch to the end (lines 104-168), the fetch
\* settling with one of the outcomes of `handled`.
fetchSettlesWith(handled) ==
    /\ \E i \in 1..Len(inflight), p \in handled :
          /\ inflight' = SubSeq(inflight, 1, i - 1) \o SubSeq(inflight, i + 1, Len(inflight))
          /\ settled' = p.outcome
          /\ event' = Event(IF p.h.error = Null THEN "success" ELSE "failure",
                            <<inflight[i]>>)
          /\ Apply(p.h)
    /\ isAnalyzing' = FALSE
    /\ UNCHANGED <<uploadedImage, imagePreview, userDetails, readers, relayVars, parserVars>>

ClientHandled == Handled(ClientOutcomes)

fetchSettles == fetchSettlesWith(ClientHandled)

(***************************************************************************)
(* The client's handling of one response: analyzeImage from a state in     *)
(* which its fetch is outstanding, for every response text of the model.   *)
(***************************************************************************)
\* The form data of the request the relay answers: an image and a note.
PostedForm == FormData(File("image/png", 2 * 1024 * 1024), " John Doe: pothole near gate ")

\* The responses: every 200 and failure response the relay makes of a model output or
\* of a thrown error, the raw body around every text, a JSON response whose body is
\* not JSON, and bodies with neither analysis nor error.
ResponseOutcomes ==
    LET req == PostedForm
    IN {Wire(AfterCall(req, c, "2025-01-01T00:00:00.000Z")) : c \in ExtContents}
       \cup {Wire(NextResponseJson(RawBody(t), 200)) : t \in ModelTexts}
       \cup {Wire(HandleError(e)) : e \in ExtErrors}
       \cup {HttpResponse(Str("application/json"), 200, "<html>"),
             Wire(NextResponseJson(Obj(<<>>), 500)), Wire(NextResponseJson(Obj(<<>>), 200))}

\* The client with a fetch outstanding: after staging an image and pressing Analyze,
\* for the first time or again after a parsed result.
AwaitingInit ==
    /\ \E f \in {g \in ClientFiles : StartsWith(g.type, "image/")} :
          /\ uploadedImage = f
          /\ imagePreview = DataUrl(f)
          /\ inflight = <<FormData(f, " John Doe: pothole near gate ")>>
    /\ isAnalyzing = TRUE
    /\ \/ analysis = Null /\ parsedAnalysis = Null /\ userContext = Null /\ settled = FetchNone
       \/ /\ analysis = Str("{}")
          /\ parsedAnalysis = Obj(<<>>)
          /\ userContext = Undefined
          /\ settled = Wire(NextResponseJson(RawBody("{}"), 200))
    /\ error = Null
    /\ userDetails = " John Doe: pothole near gate "
    /\ readers = <<>>
    /\ event = Event("analyzeImage", <<>>)

ResponseHandled == Handled(ResponseOutcomes)

responseArrives == fetchSettlesWith(ResponseHandled)

(***************************************************************************)
(* The client's parser on its own: a JSON text, bare and inside a fence.   *)
(***************************************************************************)
\* The JSON texts of the model: the cores JSON.parse accepts, with white space around.
JsonTexts ==
    {a \o c \o b : a \in {"", " ", "\n"}, b \in {"", " ", "\n"},
                   c \in {u \in Cores : JSONParse(u).ok}}

\* The ways a fence is put around a text: the opening line and the closing line.
FenceStyles ==
    {FenceJson, FenceJson \o "\n", Fence, Fence \o "\n", " " \o FenceJson \o "\n"}
    \X {Fence, "\n" \o Fence, "\n" \o Fence \o "\n"}

Fenced(style, text) == style[1] \o text \o style[2]

NotParsed == [fence |-> <<>>, value |-> Undefined]

ParserInit ==
    /\ parserInput \in JsonTexts
    /\ parserOutput = NotParsed

\* The parser on the bare text.
parseBare ==
    /\ parserOutput = NotParsed
    /\ parserOutput' = [fence |-> <<"", "">>, value |-> ParseAnalysisString(parserInput)]
    /\ UNCHANGED <<parserInput, relayVars, clientVars>>

\* The parser on the text inside a fence.
parseFenced ==
    /\ parserOutput = NotParsed
    /\ \E style \in FenceStyles :
          parserOutput' = [fence |-> style,
                         value |-> ParseAnalysisString(Fenced(style, parserInput))]
    /\ UNCHANGED <<parserInput, relayVars, clientVars>>

ParserIdle ==
    /\ parserInput = ""
    /\ parserOutput = NotParsed

(***************************************************************************)
(* The specifications.                                                     *)
(***************************************************************************)
Init == RelayInit /\ ClientInit /\ ParserIdle

Next == Validate \/ ExternalReturns \/ ExternalThrows

\* The relay handling one request.
Spec == Init /\ [][Next]_vars

ClientNext ==
    \/ onDrop
    \/ readerOnload
    \/ clearImage
    \/ setUserDetails
    \/ analyzeImage
    \/ tryAgain
    \/ fetchSettles

\* The relay handling two requests at once.
ConcurrentInit == ConcurrentRelayInit /\ ClientInit /\ ParserIdle

ConcurrentNext ==
    \E h \in Handlers :
        \/ handlerReadsForm(h)
        \/ handlerReadsImage(h)
        \/ handlerCalls(h)
        \/ handlerReturns(h)
        \/ handlerThrows(h)

ConcurrentSpec == ConcurrentInit /\ [][ConcurrentNext]_vars

\* The client, given any outcome for each fetch.
ClientSpecInit == RelayIdle /\ ClientInit /\ ParserIdle

ClientSpec == ClientSpecInit /\ [][ClientNext]_vars

\* The client, every fetch settling in the end.
ClientFairSpec == ClientSpecInit /\ [][ClientNext]_vars /\ WF_vars(fetchSettles)

ResponseSpecInit == RelayIdle /\ AwaitingInit /\ ParserIdle

ResponseNext == responseArrives

\* The client receiving the response to its one outstanding request.
ResponseSpec == ResponseSpecInit /\ [][ResponseNext]_vars

ParserNext == parseBare \/ parseFenced

\* The client's parser applied to one JSON text.
ParserSpecInit == RelayIdle /\ ClientInit /\ ParserInit

ParserSpec == ParserSpecInit /\ [][ParserNext]_vars

(***************************************************************************)
(* Properties of the relay, under Spec.                                    *)
(***************************************************************************)
\* Object.keys(o)
Keys(o) == [i \in 1..Len(o.v) |-> o.v[i][1]]

SizeLimitBody == ErrorBody("Image file too large. Maximum size is 10MB")

\* The request carries a file whose content type is image/* and whose size is at most 10 MiB.
ValidUpload ==
    /\ request.hasBody
    /\ request.image.t = "file"
    /\ StartsWith(request.image.type, "image/")
    /\ request.image.size <= maxSize

\* The external call returned the text `content`.
ReturnedText == pc = "done" /\ extResult.kind = "returned" /\ extResult.content.t = "string"

\* C1: an upload whose image has a content type that does not start with "image/" is
\* answered with status 400, and no call to the external model is made for it.
C1_NonImageRejected ==
    (request.hasBody /\ request.image.t = "file"
       /\ ~StartsWith(request.image.type, "image/")) =>
        /\ extCalls = <<>>
        /\ pc \in {"start", "done"}
        /\ pc = "done" => response.status = 400

C1_Witness ==
    /\ pc = "done"
    /\ request.hasBody
    /\ Truthy(apiKey)
    /\ request.image = File("ximage/png", 2 * 1024 * 1024)
    /\ response = NextResponseJson(ErrorBody("File must be an image"), 400)
    /\ extCalls = <<>>

\* C2, as stated: every upload whose image is larger than 10 MiB is answered with status
\* 400 and the message stating the size limit, with no call to the external model.
C2_OversizeAlwaysSizeMessage ==
    (pc = "done" /\ request.hasBody /\ request.image.t = "file"
       /\ request.image.size > maxSize) =>
        /\ response.status = 400
        /\ response.body = SizeLimitBody
        /\ extCalls = <<>>

\* C2, amended: an upload whose image is larger than 10 MiB is answered with status 400
\* and no call to the external model is made; the message states the size limit when the
\* content type starts with "image/" (otherwise the type is what the message rejects).
\* An image of exactly 10 MiB is never answered with the size message, and with a
\* configured key the external call is made for it.
C2_OversizeRejected ==
    /\ (request.hasBody /\ request.image.t = "file" /\ request.image.size > maxSize) =>
          /\ extCalls = <<>>
          /\ pc \in {"start", "done"}
          /\ pc = "done" => response.status = 400
          /\ (pc = "done" /\ StartsWith(request.image.type, "image/")) =>
                response.body = SizeLimitBody
    /\ (request.image.t = "file" /\ request.image.size = maxSize) =>
          /\ response.body # SizeLimitBody
          /\ (ValidUpload /\ Truthy(apiKey) /\ pc # "start") => Len(extCalls) = 1

C2_Witness ==
    /\ pc = "done"
    /\ request.hasBody
    /\ Truthy(apiKey)
    /\ request.image = File("image/png", maxSize + 1)
    /\ response = NextResponseJson(SizeLimitBody, 400)
    /\ extCalls = <<>>

\* C3: a submission with no image field is answered with status 400, and no call to the
\* external model is made for it.
C3_MissingImageRejected ==
    request.image = Null =>
        /\ extCalls = <<>>
        /\ pc \in {"start", "done"}
        /\ pc = "done" => response.status = 400

C3_Witness ==
    /\ pc = "done"
    /\ request.hasBody
    /\ Truthy(apiKey)
    /\ request.image = Null
    /\ response = NextResponseJson(ErrorBody("No image file provided"), 400)
    /\ extCalls = <<>>

\* C4: for an upload with an image/* content type and a size of at most 10 MiB, whatever
\* the external call does, the handler ends with a response: status 200 with a body that
\* has an `analysis` key, or one of the statuses 400, 401, 403, 408, 429, 500, 502, 503.
C4_DocumentedOutcome ==
    (ValidUpload /\ pc = "done") =>
        /\ response # NoResponse
        /\ \/ response.status = 200 /\ HasKey(response.body, "analysis")
           \/ response.status \in {400, 401, 403, 408, 429, 500, 502, 503}

C4_Witness ==
    /\ ValidUpload
    /\ pc = "done"
    /\ extResult.kind = "thrown"
    /\ ~extResult.thrown.isError
    /\ extResult.thrown.etype = Undefined
    /\ response.status = 500

\* C5: when the text the external model returns is valid JSON, the relay answers with
\* status 200 and a body whose `analysis` is the parsed value (in the body and in its
\* JSON text on the wire), with a `metadata` record of timestamp, image_size and
\* user_context, and with no `raw` key.
C5_JsonOutputParsed ==
    (ReturnedText /\ JSONParse(extResult.content.v).ok) =>
        /\ response.status = 200
        /\ Keys(response.body) = <<"analysis", "metadata">>
        /\ Get(response.body, "analysis") = JSONParse(extResult.content.v).val
        /\ Get(JSONParse(Wire(response).body).val, "analysis")
             = JSONParse(extResult.content.v).val
        /\ Keys(Get(response.body, "metadata")) = <<"timestamp", "image_size", "user_context">>
        /\ Get(Get(response.body, "metadata"), "timestamp").v \in Timestamps
        /\ Get(Get(response.body, "metadata"), "image_size") = Num(request.image.size)
        /\ Keys(Get(Get(response.body, "metadata"), "user_context"))
             = <<"complaint_type", "location", "description">>

C5_Witness ==
    /\ ReturnedText
    /\ extResult.content = Str("{\"a\":1}")
    /\ response.status = 200
    /\ Get(response.body, "analysis") = Obj(<< <<"a", Num(1)>> >>)
    /\ ~HasKey(response.body, "raw")

\* C6, as stated: when the text the external model returns is not empty and not valid
\* JSON, the relay answers with status 200 and the body { analysis: the text, raw: true }.
C6_NonEmptyTextPassedRaw ==
    (ReturnedText /\ extResult.content.v # "" /\ ~JSONParse(extResult.content.v).ok) =>
        /\ response.status = 200
        /\ response.body = RawBody(extResult.content.v)

\* C6, amended: when the text the external model returns has a character that is not
\* white space and is not valid JSON, the relay answers with status 200 and the body
\* { analysis: the text unchanged, raw: true }.
C6_NonBlankTextPassedRaw ==
    (ReturnedText /\ Trim(extResult.content.v) # "" /\ ~JSONParse(extResult.content.v).ok) =>
        /\ response.status = 200
        /\ response.body = RawBody(extResult.content.v)

C6_Witness ==
    /\ ReturnedText
    /\ extResult.content = Str(FenceJson \o "\n{ }\n" \o Fence)
    /\ response = NextResponseJson(RawBody(FenceJson \o "\n{ }\n" \o Fence), 200)

\* The user_context of the response.
ResponseUserContext == Get(Get(response.body, "metadata"), "user_context")

\* C9, as stated: in a 200 response with metadata, each field of user_context is the
\* string the caller supplied for it, and null when the caller supplied none.
C9_UserContextEchoesSupplied ==
    (pc = "done" /\ response.status = 200 /\ HasKey(response.body, "metadata")) =>
        /\ Get(ResponseUserContext, "complaint_type") = request.complaintType
        /\ Get(ResponseUserContext, "location") = request.location
        /\ Get(ResponseUserContext, "description") = request.description

\* What user_context holds for a field: the string supplied when it is not empty,
\* null when the field is absent or empty.
Echoed(field) == IF field = Null \/ field = Str("") THEN Null ELSE field

\* C9, amended: in a 200 response with metadata, each field of user_context is exactly
\* the string the caller supplied for it when that string is not empty, and null when
\* the field was not supplied or was supplied empty.
C9_UserContextEchoesNonEmpty ==
    (pc = "done" /\ response.status = 200 /\ HasKey(response.body, "metadata")) =>
        /\ Get(ResponseUserContext, "complaint_type") = Echoed(request.complaintType)
        /\ Get(ResponseUserContext, "location") = Echoed(request.location)
        /\ Get(ResponseUserContext, "description") = Echoed(request.description)

C9_Witness ==
    /\ pc = "done"
    /\ response.status = 200
    /\ request.complaintType = Null
    /\ request.location = Str("")
    /\ request.description = Str(" John Doe: pothole near gate ")
    /\ ResponseUserContext
         = Obj(<< <<"complaint_type", Null>>, <<"location", Null>>,
                  <<"description", Str(" John Doe: pothole near gate ")>> >>)

\* C10: when the external call throws an error that carries an upstream type (a
\* non-empty string), the status follows from the type alone, whatever the message:
\* invalid_request_error 400, authentication_error 401, permission_error 403,
\* rate_limit_error 429 with the retry message, api_error 502, overloaded_error 503,
\* any other type 500.
C10_StatusByUpstreamType ==
    (pc = "done" /\ extResult.kind = "thrown" /\ extResult.thrown.etype.t = "string"
       /\ extResult.thrown.etype.v # "") =>
        /\ response.status =
             CASE extResult.thrown.etype.v = "invalid_request_error" -> 400
               [] extResult.thrown.etype.v = "authentication_error" -> 401
               [] extResult.thrown.etype.v = "permission_error" -> 403
               [] extResult.thrown.etype.v = "rate_limit_error" -> 429
               [] extResult.thrown.etype.v = "api_error" -> 502
               [] extResult.thrown.etype.v = "overloaded_error" -> 503
               [] OTHER -> 500
        /\ extResult.thrown.etype.v = "rate_limit_error" =>
             response.body = ErrorBody("Rate limit exceeded. Please try again in a moment")

C10_Witness ==
    /\ pc = "done"
    /\ extResult = Threw(Thrown(Str("rate_limit_error"), TRUE, "fetch timeout: API key"))
    /\ response.status = 429

\* C12: the relay calls the external model at most once for a request; when the call
\* has thrown, the mapped failure is the response and that one call is the only one made.
C12_SingleExternalCall ==
    /\ Len(extCalls) <= 1
    /\ pc = "awaiting" => Len(extCalls) = 1
    /\ (pc = "done" /\ extResult.kind = "thrown") =>
          /\ Len(extCalls) = 1
          /\ response = HandleError(extResult.thrown)

C12_Witness ==
    /\ pc = "done"
    /\ extResult = Threw(Thrown(Str("rate_limit_error"), TRUE, "Connection error."))
    /\ response.status = 429
    /\ Len(extCalls) = 1

\* C13: with no OPENAI_API_KEY in the process environment, a request whose image passes
\* validation is answered with status 500 "AI service not configured" and no call to the
\* external model is made.
C13_MissingKeyRejected ==
    (ValidUpload /\ ~Truthy(apiKey)) =>
        /\ extCalls = <<>>
        /\ pc \in {"start", "done"}
        /\ pc = "done" =>
             response = NextResponseJson(ErrorBody("AI service not configured"), 500)

C13_Witness ==
    /\ ValidUpload
    /\ apiKey = Undefined
    /\ pc = "done"
    /\ response = NextResponseJson(ErrorBody("AI service not configured"), 500)
    /\ extCalls = <<>>

\* The error texts of the relay.
FailureMessages ==
    {"No request body provided", "No image file provided", "File must be an image",
     "Image file too large. Maximum size is 10MB", "AI service not configured",
     "No analysis generated", "Invalid request to AI service",
     "AI service authentication failed", "Permission denied for AI service",
     "Rate limit exceeded. Please try again in a moment",
     "AI service temporarily unavailable", "AI service is overloaded. Please try again",
     "AI service error occurred", "Network error. Please check your connection",
     "Request timed out. Please try again", "AI service configuration error",
     "Internal server error occurred"}

\* The classification of a thrown value: its upstream type when it carries one, else
\* what its message names when it is an Error, else an unexpected failure.
Classification(err) ==
    IF Truthy(err.etype) THEN err.etype.v
    ELSE IF err.isError /\ Includes(err.message, "fetch") THEN "NetworkError"
    ELSE IF err.isError /\ Includes(err.message, "timeout") THEN "Timeout"
    ELSE IF err.isError /\ Includes(err.message, "API key") THEN "ServiceMisconfigured"
    ELSE "Unexpected"

\* C14: the body of every failure response is { error: m } with m one of the relay's
\* fixed messages; every thrown value of the same classification, whatever its message,
\* gets the same response; and the thrown message is no part of the response's text.
C14_FixedFailureMessages ==
    (pc = "done" /\ response.status # 200) =>
        /\ response.body \in {ErrorBody(m) : m \in FailureMessages}
        /\ extResult.kind = "thrown" =>
             /\ \A e \in ExtErrors :
                   Classification(e) = Classification(extResult.thrown) =>
                       HandleError(e) = response
             /\ extResult.thrown.message # "" =>
                   ~Includes(JSONStringify(response.body), extResult.thrown.message)

C14_Witness ==
    /\ pc = "done"
    /\ extResult = Threw(Thrown(Undefined, TRUE, "Connection error."))
    /\ response = NextResponseJson(ErrorBody("Internal server error occurred"), 500)

\* The external call returned nothing usable: no choice or no message (undefined), null
\* content, or a text that is empty or all white space.
ReturnedNothingUsable ==
    /\ pc = "done"
    /\ extResult.kind = "returned"
    /\ \/ extResult.content \in {Undefined, Null}
       \/ extResult.content.t = "string" /\ Trim(extResult.content.v) = ""

\* C23: when the external call succeeds with no usable content (no choice, null content,
\* or a text that is empty or only white space), the relay answers with status 500 and
\* the body { error: "No analysis generated" }: the body has neither `analysis` nor
\* `metadata` nor `raw`.
C23_EmptyContentRejected ==
    ReturnedNothingUsable =>
        /\ response = NextResponseJson(ErrorBody("No analysis generated"), 500)
        /\ Keys(response.body) = <<"error">>
        /\ Len(extCalls) = 1

C23_Witness ==
    /\ ReturnedNothingUsable
    /\ extResult.content = Str("\n")
    /\ response.status = 500
    /\ ~HasKey(response.body, "analysis")

\* The external call, or the code after it, threw `extResult.thrown`.
CallThrew == pc = "done" /\ extResult.kind = "thrown"

\* C24: a thrown Error that carries no upstream type is classified by its message: 503
\* when the message contains "fetch", else 408 when it contains "timeout", else 500
\* with the configuration message when it contains "API key", else 500; a thrown value
\* with no upstream type that is no Error gets the last 500.  An upstream type, when
\* present, decides alone: the response is the one the same error gets with an empty
\* message.
C24_UntypedErrorByMessage ==
    CallThrew =>
        IF Truthy(extResult.thrown.etype)
        THEN response = HandleError(Thrown(extResult.thrown.etype, extResult.thrown.isError, ""))
        ELSE response =
               CASE extResult.thrown.isError /\ Includes(extResult.thrown.message, "fetch") ->
                      NextResponseJson(ErrorBody("Network error. Please check your connection"), 503)
                 [] extResult.thrown.isError /\ ~Includes(extResult.thrown.message, "fetch")
                      /\ Includes(extResult.thrown.message, "timeout") ->
                      NextResponseJson(ErrorBody("Request timed out. Please try again"), 408)
                 [] extResult.thrown.isError /\ ~Includes(extResult.thrown.message, "fetch")
                      /\ ~Includes(extResult.thrown.message, "timeout")
                      /\ Includes(extResult.thrown.message, "API key") ->
                      NextResponseJson(ErrorBody("AI service configuration error"), 500)
                 [] OTHER ->
                      NextResponseJson(ErrorBody("Internal server error occurred"), 500)

C24_Witness ==
    /\ CallThrew
    /\ extResult.thrown = Thrown(Undefined, TRUE, "fetch timeout: API key")
    /\ response = NextResponseJson(ErrorBody("Network error. Please check your connection"), 503)

\* The optional fields in the order of the prompt, each with the label of its line.
ContextFields(req) ==
    << <<"User complaint type: ", req.complaintType>>,
       <<"Reported location: ", req.location>>,
       <<"User description: ", req.description>> >>

\* The field was supplied with a text that is not empty.
SuppliedNonEmpty(field) == field.t = "string" /\ field.v # ""

RECURSIVE PromptLines(_)
\* One line, led by a line break, for each field that was supplied non-empty.
PromptLines(fields) ==
    IF fields = <<>> THEN ""
    ELSE (IF SuppliedNonEmpty(fields[1][2])
          THEN "\n" \o fields[1][1] \o fields[1][2].v ELSE "")
         \o PromptLines(Tail(fields))

\* C25: the contextual part of the prompt sent to the external model is, in this
\* order, one line for complaintType, one for location and one for description; a
\* field's line is there exactly when the field was supplied with a text that is not
\* empty, and is the field's label followed by the text as supplied, character for
\* character.
C25_ContextLinesVerbatim ==
    extCalls # <<>> =>
        /\ extCalls[1].contextualInfo = PromptLines(ContextFields(request))
        /\ \A i \in 1..3 :
              /\ Includes(extCalls[1].contextualInfo, ContextFields(request)[i][1])
                   <=> SuppliedNonEmpty(ContextFields(request)[i][2])
              /\ SuppliedNonEmpty(ContextFields(request)[i][2]) =>
                   Includes(extCalls[1].contextualInfo,
                            "\n" \o ContextFields(request)[i][1]
                                 \o ContextFields(request)[i][2].v)

C25_Witness ==
    /\ Len(extCalls) = 1
    /\ request.complaintType = Str("pothole")
    /\ request.location = Str("5th \"N\"\n\\ ${x} ")
    /\ request.description = Str(" John Doe: pothole near gate ")
    /\ extCalls[1].contextualInfo =
         "\nUser complaint type: pothole\nReported location: 5th \"N\"\n\\ ${x} "
         \o "\nUser description:  John Doe: pothole near gate "

\* The five checks before the call, in the order of the claim, each with whether the
\* request passes it and the response to a request that fails it.
PreCallChecks ==
    << [passes |-> request.hasBody,
        fails |-> NextResponseJson(ErrorBody("No request body provided"), 400)],
       [passes |-> request.image # Null /\ request.image # Str(""),
        fails |-> NextResponseJson(ErrorBody("No image file provided"), 400)],
       [passes |-> request.image.t = "file" /\ StartsWith(request.image.type, "image/"),
        fails |-> NextResponseJson(ErrorBody("File must be an image"), 400)],
       [passes |-> request.image.t = "file" /\ request.image.size <= maxSize,
        fails |-> NextResponseJson(SizeLimitBody, 400)],
       [passes |-> apiKey.t = "string" /\ apiKey.v # "",
        fails |-> NextResponseJson(ErrorBody("AI service not configured"), 500)] >>

\* C26, as stated: the checks before the call run in the order body, image present,
\* image content type, image size, credential, and the first check that fails decides
\* the response alone; a request whose image fails a check is answered 400 whatever
\* the credential, and the external call is made only when all five checks pass.
C26_FirstFailingCheckDecides ==
    /\ \A i \in 1..5 :
          (/\ pc = "done"
           /\ ~PreCallChecks[i].passes
           /\ \A j \in 1..(i - 1) : PreCallChecks[j].passes) =>
              /\ response = PreCallChecks[i].fails
              /\ extCalls = <<>>
    /\ (pc = "done" /\ request.hasBody /\ \E i \in 2..4 : ~PreCallChecks[i].passes) =>
          response.status = 400
    /\ extCalls # <<>> => \A i \in 1..5 : PreCallChecks[i].passes

(***************************************************************************)
(* Properties of the relay handling two requests, under ConcurrentSpec.    *)
(***************************************************************************)
\* The responses POST gives to the request of `l` handled alone, its external call
\* doing what it did for `l`: one response, or one for each timestamp.
AloneResponses(l) ==
    IF l.result.kind = "none" THEN {Caught(PreCall(l.request, apiKey))}
    ELSE IF l.result.kind = "returned"
    THEN {AfterCall(l.request, l.result.content, ts) : ts \in Timestamps}
    ELSE {HandleError(l.result.thrown)}

\* C22: whatever the interleaving of two POST handlers, the response of each (status
\* and body, the timestamp aside) is the one its request gets handled alone, and the
\* handler calls the external model as it does alone; a step of one handler changes
\* nothing of the other handler's state, and no step changes the state they share.
C22_HandlersIndependent ==
    /\ [](\A h \in Handlers :
            /\ handlers[h].pc = "done" =>
                  /\ handlers[h].response \in AloneResponses(handlers[h])
                  /\ handlers[h].result.kind = "none"
                       <=> PreCall(handlers[h].request, apiKey).kind # "call"
            /\ handlers[h].calls =
                  IF handlers[h].pc \in {"awaiting", "done"}
                     /\ PreCall(handlers[h].request, apiKey).kind = "call"
                  THEN <<ChatRequest(handlers[h].request)>> ELSE <<>>)
    /\ [][/\ apiKey' = apiKey
          /\ \A h \in Handlers :
                handlers'[h] # handlers[h] =>
                    /\ handlers'[h].request = handlers[h].request
                    /\ \A g \in Handlers \ {h} : handlers'[g] = handlers[g]]_vars

C22_Witness ==
    /\ handlers["h1"].pc = "done"
    /\ handlers["h2"].pc = "done"
    /\ handlers["h1"].request.description = Str(" John Doe: pothole near gate ")
    /\ handlers["h2"].request.location = Str("5th \"N\"\n\\ ${x} ")
    /\ handlers["h1"].result = Returned(Str("{}"))
    /\ handlers["h2"].result = Returned(Str("{}"))
    /\ handlers["h1"].response.status = 200
    /\ handlers["h2"].response.status = 200
    /\ Get(Get(handlers["h1"].response.body, "metadata"), "user_context")
         # Get(Get(handlers["h2"].response.body, "metadata"), "user_context")

(***************************************************************************)
(* Properties of the client's handling of a response, under ResponseSpec.  *)
(***************************************************************************)
\* analyzeImage has ended on a 200 response with a JSON content type and a JSON object.
SettledOnJson ==
    /\ inflight = <<>>
    /\ settled.kind = "response"
    /\ settled.status = 200
    /\ Truthy(settled.contentType)
    /\ Includes(settled.contentType.v, "application/json")
    /\ JSONParse(settled.body).ok
    /\ JSONParse(settled.body).val.t = "object"

\* The `analysis` of that response.
SettledAnalysis == Get(JSONParse(settled.body).val, "analysis")

\* The response's analysis is a string that is not valid JSON after fence-stripping.
SettledOnUnparsedString ==
    /\ SettledOnJson
    /\ SettledAnalysis.t = "string"
    /\ ~JSONParse(StripFence(SettledAnalysis.v)).ok

Relay200Outcomes ==
    {o \in {Wire(AfterCall(PostedForm, c, "2025-01-01T00:00:00.000Z")) : c \in ExtContents} :
       o.status = 200}

\* analyzeImage has ended on a 200 response of the relay to the request it posted.
SettledOnRelay200 ==
    /\ inflight = <<>>
    /\ FormData(uploadedImage, userDetails) = PostedForm
    /\ settled \in Relay200Outcomes

\* C29, as stated: every 200 response of the relay, the wrapper around any parsed JSON
\* value or the raw passthrough, ends analyzeImage in Resolved: error is null and
\* analysis is not.
C29_Relay200Resolves ==
    SettledOnRelay200 =>
        /\ ~isAnalyzing
        /\ error = Null
        /\ analysis # Null

\* C30, as stated: after a successful analysis of a request with a note that is not
\* blank, userContext is the user_context record of the relay's response, whose
\* description is the note.
C30_UserContextStored ==
    (SettledOnRelay200 /\ error = Null /\ HasKey(JSONParse(settled.body).val, "metadata")) =>
        /\ userContext = Get(Get(JSONParse(settled.body).val, "metadata"), "user_context")
        /\ Get(userContext, "description") = Str(Trim(userDetails))

(***************************************************************************)
(* Properties of the client's parser, under ParserSpec.                    *)
(***************************************************************************)
\* C8: for a JSON text J, the parser applied to J inside a code fence, with or without
\* the json tag, yields the value it yields for J alone, which is the value of J.
C8_FenceStrippingIdempotent ==
    parserOutput # NotParsed =>
        /\ parserOutput.value = ParseAnalysisString(parserInput)
        /\ parserOutput.value = JSONParse(parserInput).val

C8_Witness ==
    /\ parserInput = "{\"a\":1}"
    /\ parserOutput = [fence |-> <<FenceJson \o "\n", "\n" \o Fence>>,
                       value |-> Obj(<< <<"a", Num(1)>> >>)]

(***************************************************************************)
(* Properties of the client, under ClientSpec.                             *)
(***************************************************************************)
\* C11: at most one request is outstanding, and isAnalyzing is true exactly while one is:
\* a submission, which needs isAnalyzing false, can follow another only after it settled.
C11_SingleOutstandingRequest ==
    /\ Len(inflight) <= 1
    /\ isAnalyzing <=> Len(inflight) = 1

C11_Witness ==
    /\ event.name = "tryAgain"
    /\ settled = FetchRejected
    /\ isAnalyzing
    /\ Len(inflight) = 1

\* The step is the settling of a fetch with a response whose content type is missing
\* or does not include application/json.
SettlesOnOtherType ==
    /\ Len(inflight') < Len(inflight)
    /\ settled'.kind = "response"
    /\ ~Truthy(settled'.contentType) \/ ~Includes(settled'.contentType.v, "application/json")

\* C15: when the response has no content type or one that does not include
\* application/json, whatever its status, analyzeImage ends with error set, and
\* analysis and parsedAnalysis are what they were before the response.
C15_OtherContentTypeFails ==
    [][SettlesOnOtherType =>
          /\ Truthy(error')
          /\ ~isAnalyzing'
          /\ analysis' = analysis
          /\ parsedAnalysis' = parsedAnalysis]_vars

C15_Witness ==
    /\ event.name = "failure"
    /\ settled = HttpResponse(Str("text/html"), 200, "{\"analysis\":\"{}\",\"raw\":true}")
    /\ error = Str("Server error. Please try again in a moment.")
    /\ analysis = Str("no JSON")
    /\ parsedAnalysis = Null

\* C16: when the file dropped has a type that does not start with "image/", onDrop
\* stages nothing and starts no load: uploadedImage, imagePreview, analysis,
\* parsedAnalysis, error and isAnalyzing are what they were.
C16_NonImageDropIgnored ==
    [][(/\ event'.name = "onDrop"
        /\ event'.data # <<>>
        /\ ~StartsWith(event'.data[1].type, "image/")) =>
          UNCHANGED <<uploadedImage, imagePreview, analysis, parsedAnalysis, error,
                      isAnalyzing, userContext, readers, inflight>>]_vars

C16_Witness ==
    /\ event = Event("onDrop", <<File("text/plain", 1024)>>)
    /\ uploadedImage = File("image/png", 2 * 1024 * 1024)
    /\ imagePreview = DataUrl(File("image/png", 2 * 1024 * 1024))
    /\ analysis = Str("no JSON")
    /\ ~isAnalyzing

\* The session state: Analyzing while isAnalyzing, else Failed with an error, else
\* Resolved with a result, else Staged with an image, else Idle (the order in which the
\* results panel tests isAnalyzing, error and analysis).
Phase ==
    IF isAnalyzing THEN "Analyzing"
    ELSE IF Truthy(error) THEN "Failed"
    ELSE IF Truthy(analysis) THEN "Resolved"
    ELSE IF Truthy(uploadedImage) THEN "Staged"
    ELSE "Idle"

\* What a handler is to the session: an image selected, a clear, a submit, a retry, the
\* success or failure of the request, or nothing (a file refused, a preview loaded, a
\* note typed).
Label(e) ==
    CASE e.name = "onDrop" ->
           IF e.data # <<>> /\ StartsWith(e.data[1].type, "image/") THEN "select"
           ELSE "none"
      [] e.name = "clearImage" -> "clear"
      [] e.name = "analyzeImage" -> "submit"
      [] e.name = "tryAgain" -> "retry"
      [] e.name \in {"success", "failure"} -> e.name
      [] OTHER -> "none"

\* The eight transitions of the specified state machine.
SpecifiedTransitions ==
    {<<"Idle", "select", "Staged">>, <<"Staged", "clear", "Idle">>,
     <<"Staged", "submit", "Analyzing">>, <<"Analyzing", "success", "Resolved">>,
     <<"Analyzing", "failure", "Failed">>, <<"Resolved", "select", "Staged">>,
     <<"Failed", "retry", "Analyzing">>, <<"Failed", "select", "Staged">>}

\* C17, as stated: the session state changes only by the eight specified transitions;
\* no image is selected or cleared while Analyzing and nothing is submitted from Resolved.
C17_OnlySpecifiedTransitions ==
    [][/\ Phase' # Phase => <<Phase, Label(event'), Phase'>> \in SpecifiedTransitions
       /\ Phase = "Analyzing" => Label(event') \notin {"select", "clear"}
       /\ Phase = "Resolved" => Label(event') # "submit"]_vars

\* The transitions the handlers make.
HandlerTransitions ==
    SpecifiedTransitions
    \cup {<<"Staged", "select", "Staged">>, <<"Analyzing", "select", "Analyzing">>,
          <<"Idle", "clear", "Idle">>, <<"Resolved", "clear", "Idle">>,
          <<"Failed", "clear", "Idle">>, <<"Analyzing", "clear", "Analyzing">>,
          <<"Resolved", "submit", "Analyzing">>, <<"Failed", "submit", "Analyzing">>,
          <<"Failed", "retry", "Resolved">>, <<"Failed", "retry", "Idle">>}

\* C17, amended: every step of the session is one of the eight specified transitions or
\* one of these: an image selected in Staged (stays Staged) or while Analyzing (stays
\* Analyzing); a clear in Idle (stays Idle), from Resolved or Failed (to Idle) or while
\* Analyzing (stays Analyzing); a submit from Resolved or Failed (to Analyzing); a retry
\* with no image staged, from Failed to Resolved or Idle.  A handler that is nothing to
\* the session leaves the session state as it is.
C17_OnlyHandlerTransitions ==
    [][IF Label(event') = "none" THEN Phase' = Phase
       ELSE <<Phase, Label(event'), Phase'>> \in HandlerTransitions]_vars

C17_Witness ==
    /\ event.name = "analyzeImage"
    /\ Phase = "Analyzing"
    /\ analysis = Str("no JSON")
    /\ settled = Wire(NextResponseJson(RawBody("no JSON"), 200))

\* A handler that clears the image, selects a new one or starts a new analysis ran last.
StartsAfresh ==
    \/ Label(event) \in {"clear", "select", "submit"}
    \/ event.name = "tryAgain" /\ isAnalyzing

\* C19, as stated: after the user clears the image, selects a new image or starts a new
\* analysis, the client holds nothing of the previous result: analysis, parsedAnalysis
\* and userContext are reset.
C19_PreviousResultReset ==
    StartsAfresh =>
        /\ analysis = Null
        /\ parsedAnalysis = Null
        /\ userContext \in {Null, Undefined}

\* The results panel shows a result (lines 441, 466, 488).
ShowsResult == ~isAnalyzing /\ ~Truthy(error) /\ Truthy(analysis)

\* The analysis text is the one analyzeImage set from a response handled as `h`, and a
\* parsedAnalysis, where there is one to render, is the one it set from that response.
MadeOf(h) ==
    /\ h.sets.analysis
    /\ analysis = h.sets.value
    /\ Truthy(parsedAnalysis) => (h.error = Null /\ parsedAnalysis = h.parsedAnalysis)

\* C20, as stated: where the results panel shows a result, the analysis text and the
\* parsedAnalysis rendered are both made of the response received last; no
\* parsedAnalysis of an earlier response is rendered.
C20_ResultOfLastResponse ==
    ShowsResult => (settled.kind = "response" /\ MadeOf(HandleOutcome(settled)))

\* C28, as stated: once every pending file read has completed, the preview shown is the
\* preview of the staged image: imagePreview is null when no image is staged, and
\* otherwise the data URL read from uploadedImage, in whatever order selections, clears
\* and onload callbacks came.
C28_PreviewOfStagedImage ==
    readers = <<>> =>
        IF uploadedImage = Null THEN imagePreview = Null
        ELSE imagePreview = DataUrl(uploadedImage)

\* The step is a click on Try Again right after a request failed.
RetriesAfterFailure == event.name = "failure" /\ event'.name = "tryAgain"

\* C21, as stated: from Failed, Try Again clears the error and issues exactly one new
\* request, which carries the image and the note of the request that failed.
C21_RetryReissuesFailedRequest ==
    [][RetriesAfterFailure =>
          /\ error' = Null
          /\ inflight' = <<event.data[1]>>]_vars

\* C21, amended: from Failed, Try Again clears the error and, when an image is staged,
\* issues exactly one new request, which carries the image staged and the note entered
\* at the time of the click (the note trimmed, and left out when blank); these are
\* the image and the note of the request that failed when neither was changed since
\* that request was submitted.  With no image staged it issues no request.
C21_RetryPostsStagedForm ==
    [][event'.name = "tryAgain" =>
          /\ Phase = "Failed"
          /\ error' = Null
          /\ IF uploadedImage # Null
             THEN /\ inflight' = <<FormData(uploadedImage, userDetails)>>
                  /\ isAnalyzing'
                  /\ (event.name = "failure"
                        /\ event.data[1].image = uploadedImage
                        /\ event.data[1].description = FormData(uploadedImage, userDetails).description)
                       => inflight' = <<event.data[1]>>
             ELSE inflight' = <<>> /\ ~isAnalyzing'
          /\ UNCHANGED <<uploadedImage, userDetails, analysis, parsedAnalysis>>]_vars

C21_Witness ==
    /\ event.name = "tryAgain"
    /\ isAnalyzing
    /\ error = Null
    /\ settled.kind = "response"
    /\ settled.status = 429
    /\ inflight = <<FormData(File("image/png", 2 * 1024 * 1024), " John Doe: pothole near gate ")>>

\* C27, as stated: while no request is outstanding, an analysis or an error the client
\* holds comes from a request that carried the staged image: with no image staged both
\* are null, and what the request that settled last has set (its error, or the analysis
\* of its response) was set for a request carrying the image that is staged.
C27_ResultOfStagedImage ==
    ~isAnalyzing =>
        /\ uploadedImage = Null => (analysis = Null /\ error = Null)
        /\ (/\ event.name \in {"success", "failure"}
            /\ Truthy(error) \/ HandleOutcome(settled).sets.analysis) =>
              event.data[1].image = uploadedImage

(***************************************************************************)
(* Properties of the client, under ClientFairSpec.                         *)
(***************************************************************************)
\* C18: isAnalyzing goes from true to false only in the step in which the one outstanding
\* request settles, and that step leaves a result or an error set; and, every request
\* settling in the end, the client does not stay analyzing.
C18_AnalyzingEndsOnSettle ==
    /\ [][(isAnalyzing /\ ~isAnalyzing') =>
             /\ Len(inflight) = 1
             /\ inflight' = <<>>
             /\ event'.name \in {"success", "failure"}
             /\ Truthy(error') \/ Truthy(analysis')]_vars
    /\ isAnalyzing ~> (~isAnalyzing /\ (Truthy(error) \/ Truthy(analysis)))

C18_Witness ==
    /\ event.name = "failure"
    /\ settled = FetchRejected
    /\ ~isAnalyzing
    /\ inflight = <<>>
    /\ error = Str("Network error. Please check your connection and try again.")

=============================================================================
